---------------------------- MODULE Spec2Model ----------------------------
(***************************************************************************)
(* A model of far_extractor/far_extractor.py: the decoder of the ".far"    *)
(* archive format (convert_bytes, parse_manifest_entry, create_manifest),  *)
(* the lookup get_manifest_entry_by_name and the extractor (get_bytes,     *)
(* extract_manifest_entry, extract_manifest_files).                        *)
(*                                                                         *)
(* Bytes are the integers 0..255, a bytes object is a sequence of them.    *)
(* A Python str is a sequence of code points (integers).  A file stream is *)
(* the archive's bytes plus a cursor, the number of bytes before it.       *)
(***************************************************************************)
EXTENDS Integers, Sequences, FiniteSets, TLC

Min(a, b) == IF a <= b THEN a ELSE b

(* ------------------------------------------------------------------------ *)
(* Python built-ins the source calls                                        *)
(* ------------------------------------------------------------------------ *)

(* bytearray(n) followed by stream.readinto(byte_array): the buffer starts  *)
(* as n zero bytes; readinto copies as many bytes as the stream still has   *)
(* (at most n) into its front and moves the cursor by that count.  A short  *)
(* read raises nothing and leaves the rest of the buffer zero.              *)
ReadInto(data, p, n) ==
    LET avail == IF p >= Len(data) THEN 0 ELSE Min(n, Len(data) - p)
    IN  [buf |-> [i \in 1..n |-> IF i <= avail THEN data[p + i] ELSE 0],
         pos |-> p + avail]

(* int.from_bytes(byte_array, "little") *)
RECURSIVE FromBytesLittle(_)
FromBytesLittle(b) ==
    IF Len(b) = 0 THEN 0 ELSE b[1] + 256 * FromBytesLittle(Tail(b))

IsCont(b, i) == i <= Len(b) /\ b[i] >= 128 /\ b[i] <= 191
InRange(b, i, lo, hi) == i <= Len(b) /\ b[i] >= lo /\ b[i] <= hi

(* The length of the well-formed UTF-8 sequence that starts at b[i], 0 when *)
(* there is none (the strict decoder of bytes.decode("utf-8")).             *)
Utf8SeqLen(b, i) ==
    LET c == b[i]
    IN  IF c <= 127 THEN 1
        ELSE IF c >= 194 /\ c <= 223 THEN (IF IsCont(b, i + 1) THEN 2 ELSE 0)
        ELSE IF c >= 224 /\ c <= 239
             THEN (IF /\ InRange(b, i + 1, IF c = 224 THEN 160 ELSE 128,
                                           IF c = 237 THEN 159 ELSE 191)
                      /\ IsCont(b, i + 2)
                   THEN 3 ELSE 0)
        ELSE IF c >= 240 /\ c <= 244
             THEN (IF /\ InRange(b, i + 1, IF c = 240 THEN 144 ELSE 128,
                                           IF c = 244 THEN 143 ELSE 191)
                      /\ IsCont(b, i + 2)
                      /\ IsCont(b, i + 3)
                   THEN 4 ELSE 0)
        ELSE 0

Utf8CodePoint(b, i, n) ==
    IF n = 1 THEN b[i]
    ELSE IF n = 2 THEN (b[i] - 192) * 64 + (b[i + 1] - 128)
    ELSE IF n = 3 THEN (b[i] - 224) * 4096 + (b[i + 1] - 128) * 64 + (b[i + 2] - 128)
    ELSE (b[i] - 240) * 262144 + (b[i + 1] - 128) * 4096
         + (b[i + 2] - 128) * 64 + (b[i + 3] - 128)

(* byte_array.decode("utf-8") from index i on: ok is FALSE where Python     *)
(* raises UnicodeDecodeError.                                               *)
RECURSIVE Utf8Decode(_, _)
Utf8Decode(b, i) ==
    IF i > Len(b) THEN [ok |-> TRUE, s |-> <<>>]
    ELSE LET n == Utf8SeqLen(b, i)
         IN  IF n = 0 THEN [ok |-> FALSE, s |-> <<>>]
             ELSE LET rest == Utf8Decode(b, i + n)
                  IN  IF rest.ok
                      THEN [ok |-> TRUE, s |-> <<Utf8CodePoint(b, i, n)>> \o rest.s]
                      ELSE [ok |-> FALSE, s |-> <<>>]

Backslash == <<92>>
Slash == <<47>>

(* str.replace(old, new, 1): only the first occurrence is replaced *)
StrReplaceFirst(s, old, new) ==
    [i \in 1..Len(s) |->
        IF s[i] = old[1] /\ \A j \in 1..(i - 1) : s[j] # old[1] THEN new[1] ELSE s[i]]

(* str.replace(old, new) for one-character old and new *)
StrReplace(s, old, new) ==
    [i \in 1..Len(s) |-> IF s[i] = old[1] THEN new[1] ELSE s[i]]

(* ------------------------------------------------------------------------ *)
(* convert_bytes                                                            *)
(* ------------------------------------------------------------------------ *)

(* convert_bytes with a buffer one byte short: bytearray(n_bytes - 1) *)
convert_bytesShort(n_bytes, type, data, p) ==
    LET r == ReadInto(data, p, n_bytes - 1)
    IN  IF type = "str"
        THEN LET d == Utf8Decode(r.buf, 1)
             IN  [value |-> d.s, pos |-> r.pos,
                  exc |-> IF d.ok THEN "none" ELSE "UnicodeDecodeError"]
        ELSE IF type = "int"
        THEN [value |-> FromBytesLittle(r.buf), pos |-> r.pos, exc |-> "none"]
        ELSE [value |-> 0, pos |-> r.pos, exc |-> "ValueError"]

(* convert_bytes(n_bytes, type, stream) with the stream's cursor at p.      *)
(* Returns the value, the cursor after the call and the exception raised    *)
(* ("none" for a normal return).                                            *)
convert_bytes(n_bytes, type, data, p) ==
    LET r == ReadInto(data, p, n_bytes)
    IN  IF type = "str"
        THEN LET d == Utf8Decode(r.buf, 1)
             IN  [value |-> d.s, pos |-> r.pos,
                  exc |-> IF d.ok THEN "none" ELSE "UnicodeDecodeError"]
        ELSE IF type = "int"
        THEN [value |-> FromBytesLittle(r.buf), pos |-> r.pos, exc |-> "none"]
        ELSE [value |-> 0, pos |-> r.pos, exc |-> "ValueError"]

(* ------------------------------------------------------------------------ *)
(* parse_manifest_entry, get_manifest_entry_by_name, get_bytes              *)
(* ------------------------------------------------------------------------ *)

ManifestEntry(length, _length, file_offset, file_name_length, file_name) ==
    [length |-> length, _length |-> _length, file_offset |-> file_offset,
     file_name_length |-> file_name_length, file_name |-> file_name]

Manifest(number_of_files, manifest_entries) ==
    [number_of_files |-> number_of_files, manifest_entries |-> manifest_entries]

(* parse_manifest_entry(stream) with the cursor at p: five convert_bytes    *)
(* calls in a row, each starting where the one before stopped.              *)
parse_manifest_entry(data, p) ==
    LET length           == convert_bytes(4, "int", data, p)
        _length          == convert_bytes(4, "int", data, length.pos)
        file_offset      == convert_bytes(4, "int", data, _length.pos)
        file_name_length == convert_bytes(4, "int", data, file_offset.pos)
        raw_name         == convert_bytes(file_name_length.value, "str", data,
                                          file_name_length.pos)
        file_name        == StrReplace(raw_name.value, Backslash, Slash)
    IN  [entry |-> ManifestEntry(length.value, _length.value, file_offset.value,
                                 file_name_length.value, file_name),
         pos   |-> raw_name.pos,
         exc   |-> raw_name.exc]

(* The loop without its early return: the last match wins. *)
ScanEntriesLast(entries, file_name, i) ==
    LET hits == {j \in i..Len(entries) : entries[j].file_name = file_name}
    IN  IF hits = {}
        THEN [exc |-> "ValueError", index |-> 0, entry |-> <<>>]
        ELSE LET k == CHOOSE j \in hits : \A h \in hits : h <= j
             IN  [exc |-> "none", index |-> k, entry |-> entries[k]]

(* The for loop of get_manifest_entry_by_name from index i on.  index is    *)
(* the position of the returned object in manifest.manifest_entries.        *)
RECURSIVE ScanEntries(_, _, _)
ScanEntries(entries, file_name, i) ==
    IF i > Len(entries)
    THEN [exc |-> "ValueError", index |-> 0, entry |-> <<>>]
    ELSE IF entries[i].file_name = file_name
         THEN [exc |-> "none", index |-> i, entry |-> entries[i]]
         ELSE ScanEntries(entries, file_name, i + 1)

get_manifest_entry_by_name(m, file_name) ==
    ScanEntries(m.manifest_entries, file_name, 1)

(* get_bytes without its seek: the read starts at the cursor *)
get_bytesNoSeek(offset, length, data, p) == ReadInto(data, p, length)

(* get_bytes(offset, length, stream) with the cursor at p: seek(offset,     *)
(* SEEK_SET), then readinto a zeroed buffer of length bytes.                *)
get_bytes(offset, length, data, p) == ReadInto(data, offset, length)

(* ------------------------------------------------------------------------ *)
(* os.path and the file system                                              *)
(* ------------------------------------------------------------------------ *)

(* posixpath.join(a, b) *)
PathJoin(a, b) ==
    IF Len(b) > 0 /\ b[1] = Slash[1] THEN b
    ELSE IF Len(a) = 0 \/ a[Len(a)] = Slash[1] THEN a \o b
    ELSE a \o Slash \o b

LastSlash(p) ==
    LET at == {i \in 1..Len(p) : p[i] = Slash[1]}
    IN  IF at = {} THEN 0 ELSE CHOOSE i \in at : \A j \in at : j <= i

RECURSIVE StripSlashes(_)
StripSlashes(p) ==
    IF Len(p) > 0 /\ p[Len(p)] = Slash[1]
    THEN StripSlashes(SubSeq(p, 1, Len(p) - 1))
    ELSE p

(* posixpath.dirname(p) *)
PathDirname(p) ==
    LET head == SubSeq(p, 1, LastSlash(p))
    IN  IF \E i \in 1..Len(head) : head[i] # Slash[1]
        THEN StripSlashes(head)
        ELSE head

(* The components of a path: the pieces between slashes. *)
RECURSIVE Components(_, _)
Components(p, cur) ==
    IF Len(p) = 0 THEN <<cur>>
    ELSE IF p[1] = Slash[1] THEN <<cur>> \o Components(Tail(p), <<>>)
    ELSE Components(Tail(p), Append(cur, p[1]))

Dot == <<46>>
DotDot == <<46, 46>>
HasNul(s) == \E i \in 1..Len(s) : s[i] = 0

(* The directory an absolute path names once "", "." and ".." components    *)
(* are resolved (no symbolic links): a sequence of component names from the *)
(* file system's root.                                                      *)
RECURSIVE Resolve(_, _)
Resolve(comps, at) ==
    IF Len(comps) = 0 THEN at
    ELSE LET c == comps[1]
         IN  IF c = <<>> \/ c = Dot THEN Resolve(Tail(comps), at)
             ELSE IF c = DotDot
                  THEN Resolve(Tail(comps),
                               IF Len(at) = 0 THEN at ELSE SubSeq(at, 1, Len(at) - 1))
             ELSE Resolve(Tail(comps), Append(at, c))

(* os.makedirs(path, exist_ok=True), component by component from directory  *)
(* `at`: every missing directory on the way is created; a component that    *)
(* is a regular file raises FileExistsError/NotADirectoryError, a component *)
(* with a NUL character raises ValueError.  ds: the directories, fs: the    *)
(* regular files (a function from resolved paths to contents).              *)
RECURSIVE MakeDirsFrom(_, _, _, _)
MakeDirsFrom(comps, at, ds, fs) ==
    IF Len(comps) = 0 THEN [exc |-> "none", dirs |-> ds]
    ELSE LET c == comps[1]
         IN  IF HasNul(c) THEN [exc |-> "ValueError", dirs |-> ds]
             ELSE IF c = <<>> \/ c = Dot THEN MakeDirsFrom(Tail(comps), at, ds, fs)
             ELSE IF c = DotDot
                  THEN MakeDirsFrom(Tail(comps),
                          IF Len(at) = 0 THEN at ELSE SubSeq(at, 1, Len(at) - 1),
                          ds, fs)
             ELSE IF Append(at, c) \in DOMAIN fs
                  THEN [exc |-> "OSError", dirs |-> ds]
             ELSE MakeDirsFrom(Tail(comps), Append(at, c),
                               ds \cup {Append(at, c)}, fs)

MakeDirs(path, ds, fs) == MakeDirsFrom(Components(path, <<>>), <<>>, ds, fs)

(* The file that an absolute path names. *)
Destination(path) == Resolve(Components(path, <<>>), <<>>)

(* open(file_path, "wb"): "none" when the file is opened (created or        *)
(* truncated), otherwise the exception.  The root directory always exists.  *)
OpenForWrite(path, ds, fs) ==
    LET comps  == Components(path, <<>>)
        last   == comps[Len(comps)]
        parent == Resolve(SubSeq(comps, 1, Len(comps) - 1), <<>>)
    IN  IF HasNul(path) THEN "ValueError"
        ELSE IF last = <<>> \/ last = Dot \/ last = DotDot THEN "OSError"
        ELSE IF parent # <<>> /\ parent \notin ds THEN "OSError"
        ELSE IF Append(parent, last) \in ds THEN "OSError"
        ELSE "none"

(* fs with the file at `dest` holding `content` *)
WriteFile(fs, dest, content) ==
    [d \in DOMAIN fs \cup {dest} |-> IF d = dest THEN content ELSE fs[d]]

(* ------------------------------------------------------------------------ *)
(* The inputs: archives and the output directory                            *)
(* ------------------------------------------------------------------------ *)

(* The most entries an archive of Init holds. *)
MaxFiles == 3

(* u32 little-endian, as the archive's writer stores an integer *)
U32LE(n) == <<n % 256, (n \div 256) % 256, (n \div 65536) % 256, (n \div 16777216) % 256>>

(* "FAR!byAZ", and the same with a byte that is not UTF-8 in it *)
Signature == <<70, 65, 82, 33, 98, 121, 65, 90>>
BadSignature == <<70, 65, 82, 33, 255, 121, 65, 90>>

(* The packed files' bytes, at offsets 16..18 of every archive of Init. *)
Payload == <<11, 22, 33>>

(* Members: a raw name (bytes), a length, and an offset, which is absolute  *)
(* or, for atEnd, the offset of the complete archive's last byte.           *)
Member(name, off, len, atEnd) == [name |-> name, off |-> off, len |-> len, atEnd |-> atEnd]

Members ==
    { Member(<<97>>, 16, 2, FALSE),                 \* "a"
      Member(<<97>>, 17, 2, FALSE),                 \* "a" again, another range
      Member(<<46, 47, 97>>, 18, 1, FALSE),         \* "./a"
      Member(<<100, 92, 97>>, 0, 2, TRUE),          \* "d\a", reaching past the end
      Member(<<46, 46, 47, 97>>, 16, 1, FALSE),     \* "../a"
      Member(<<47, 97>>, 17, 1, FALSE),             \* "/a"
      Member(<<255>>, 16, 1, FALSE) }               \* not UTF-8

MemberLists == UNION { [1..k -> Members] : k \in 0..MaxFiles }

RECURSIVE TableLen(_)
TableLen(ms) == IF Len(ms) = 0 THEN 0 ELSE 16 + Len(ms[1].name) + TableLen(Tail(ms))

RECURSIVE TableBytes(_, _)
TableBytes(ms, total) ==
    IF Len(ms) = 0 THEN <<>>
    ELSE LET m == ms[1]
         IN  U32LE(m.len) \o U32LE(m.len)
             \o U32LE(IF m.atEnd THEN total - 1 ELSE m.off)
             \o U32LE(Len(m.name)) \o m.name \o TableBytes(Tail(ms), total)

(* The archive of the members ms whose count field says declared: header,   *)
(* payload, then the manifest table.                                        *)
ArchiveOf(sig, ms, declared) ==
    sig \o U32LE(1) \o U32LE(16 + Len(Payload)) \o Payload \o U32LE(declared)
        \o TableBytes(ms, 16 + Len(Payload) + 4 + TableLen(ms))

(* How many bytes a truncated archive may have lost at its end. *)
Cuts == {1, 2}

Truncated(data, c) == SubSeq(data, 1, Len(data) - c)

(* A header alone: its manifest_offset points beyond the end. *)
HeaderOnly == Signature \o U32LE(1) \o U32LE(16 + Len(Payload))

(* Complete archives, archives whose count field declares one entry more    *)
(* than the table holds, archives cut short, a header alone, and a file     *)
(* whose signature is not UTF-8.                                            *)
Archives ==
    { ArchiveOf(Signature, ms, Len(ms)) : ms \in MemberLists }
    \cup { ArchiveOf(Signature, ms, Len(ms) + 1) : ms \in MemberLists }
    \cup { Truncated(ArchiveOf(Signature, ms, Len(ms)), c) : ms \in MemberLists, c \in Cuts }
    \cup { HeaderOnly, ArchiveOf(BadSignature, <<>>, 0) }

(* output_path: "/out" *)
OutputPath == <<47, 111, 117, 116>>

(* The names looked up: "a", "A", "d/a", "a/b", "" and the absent "zz". *)
LookupNames == { <<97>>, <<65>>, <<100, 47, 97>>, <<97, 47, 98>>, <<>>, <<122, 122>> }

(* What the environment may make fail in one extract_manifest_entry call:   *)
(* nothing, os.makedirs (it raises OSError) or the open of the output file  *)
(* (it raises OSError inside the try block, as a failing write would).      *)
Faults == {"none", "makedirs", "open"}

(* ------------------------------------------------------------------------ *)
(* State                                                                    *)
(* ------------------------------------------------------------------------ *)

VARIABLES
    archive,          \* the bytes of the file at far_file_path
    pc,               \* where the run is
    pos,              \* the cursor of the open stream
    number_of_files,  \* create_manifest's local
    manifest_files,   \* create_manifest's local list
    starts,           \* the cursor at the start of each parse_manifest_entry call
    manifest,         \* the Manifest create_manifest returned
    idx,              \* how many entries extract_manifest_files has taken
    files,            \* the regular files on disk: resolved path -> bytes
    dirs,             \* the directories on disk (the root always exists)
    exc,              \* the exception that ended the run
    reported,         \* the entries whose write failure was printed
    last,             \* the latest extract_manifest_entry call
    ret               \* the latest return of a function called on its own

vars == <<archive, pc, pos, number_of_files, manifest_files, starts, manifest,
          idx, files, dirs, exc, reported, last, ret>>

NoManifest == Manifest(0, <<>>)
NoExc == [type |-> "none", where |-> "none"]
NoCall == [index |-> 0, outcome |-> "none", path |-> <<>>, content |-> <<>>]
NoRet == [op |-> "none"]

Init ==
    /\ archive \in Archives
    /\ pc = "start"
    /\ pos = 0
    /\ number_of_files = 0
    /\ manifest_files = <<>>
    /\ starts = <<>>
    /\ manifest = NoManifest
    /\ idx = 0
    /\ files = <<>>
    /\ dirs = {}
    /\ exc = NoExc
    /\ reported = <<>>
    /\ last = NoCall
    /\ ret = NoRet

Raise(type, where) ==
    /\ pc' = "failed"
    /\ exc' = [type |-> type, where |-> where]

(* ------------------------------------------------------------------------ *)
(* create_manifest                                                          *)
(* ------------------------------------------------------------------------ *)

(* with open(far_file_path, "rb") as stream: the open succeeds, or raises   *)
(* OSError (a missing or unreadable file).                                  *)
OpenArchive ==
    /\ pc = "start"
    /\ \/ /\ pc' = "header"
          /\ pos' = 0
          /\ UNCHANGED exc
       \/ /\ Raise("OSError", "create_manifest")
          /\ UNCHANGED pos
    /\ UNCHANGED <<archive, number_of_files, manifest_files, starts, manifest, idx,
                   files, dirs, reported, last, ret>>

(* signature, version, manifest_offset, the seek, number_of_files and the   *)
(* empty list.                                                              *)
ReadHeader ==
    /\ pc = "header"
    /\ LET signature       == convert_bytes(8, "str", archive, pos)
           version         == convert_bytes(4, "int", archive, signature.pos)
           manifest_offset == convert_bytes(4, "int", archive, version.pos)
           count           == convert_bytes(4, "int", archive, manifest_offset.value)
       IN  IF signature.exc # "none"
           THEN /\ Raise(signature.exc, "create_manifest")
                /\ pos' = signature.pos
                /\ UNCHANGED <<number_of_files, manifest_files>>
           ELSE /\ pc' = "entries"
                /\ pos' = count.pos
                /\ number_of_files' = count.value
                /\ manifest_files' = <<>>
                /\ UNCHANGED exc
    /\ UNCHANGED <<archive, starts, manifest, idx, files, dirs, reported, last, ret>>

(* The loop's turn with manifest_files.insert(0, manifest_entry) *)
ParseEntryPrepend ==
    /\ pc = "entries"
    /\ Len(manifest_files) < number_of_files
    /\ LET r == parse_manifest_entry(archive, pos)
       IN  /\ pos' = r.pos
           /\ starts' = Append(starts, pos)
           /\ IF r.exc # "none"
              THEN /\ Raise(r.exc, "create_manifest")
                   /\ UNCHANGED manifest_files
              ELSE /\ manifest_files' = <<r.entry>> \o manifest_files
                   /\ UNCHANGED <<pc, exc>>
    /\ UNCHANGED <<archive, number_of_files, manifest, idx, files, dirs, reported,
                   last, ret>>

(* One turn of the loop: parse_manifest_entry, then append. *)
ParseEntry ==
    /\ pc = "entries"
    /\ Len(manifest_files) < number_of_files
    /\ LET r == parse_manifest_entry(archive, pos)
       IN  /\ pos' = r.pos
           /\ starts' = Append(starts, pos)
           /\ IF r.exc # "none"
              THEN /\ Raise(r.exc, "create_manifest")
                   /\ UNCHANGED manifest_files
              ELSE /\ manifest_files' = Append(manifest_files, r.entry)
                   /\ UNCHANGED <<pc, exc>>
    /\ UNCHANGED <<archive, number_of_files, manifest, idx, files, dirs, reported,
                   last, ret>>

(* The loop is over: the Manifest is built and returned, the stream closed. *)
ReturnManifest ==
    /\ pc = "entries"
    /\ Len(manifest_files) = number_of_files
    /\ manifest' = Manifest(number_of_files, manifest_files)
    /\ pc' = "manifest"
    /\ pos' = 0
    /\ UNCHANGED <<archive, number_of_files, manifest_files, starts, idx, files,
                   dirs, exc, reported, last, ret>>

(* ------------------------------------------------------------------------ *)
(* get_manifest_entry_by_name, called on the Manifest                       *)
(* ------------------------------------------------------------------------ *)

Lookup ==
    /\ pc = "manifest"
    /\ \E file_name \in LookupNames :
          ret' = [op |-> "get_manifest_entry_by_name", file_name |-> file_name,
                  given |-> manifest,
                  result |-> get_manifest_entry_by_name(manifest, file_name)]
    /\ pc' = "looked_up"
    /\ UNCHANGED <<archive, pos, number_of_files, manifest_files, starts, manifest,
                   idx, files, dirs, exc, reported, last>>

(* ------------------------------------------------------------------------ *)
(* extract_manifest_files                                                   *)
(* ------------------------------------------------------------------------ *)

OpenForExtract ==
    /\ pc = "manifest"
    /\ \/ /\ pc' = "extract"
          /\ UNCHANGED exc
       \/ Raise("OSError", "extract_manifest_files")
    /\ pos' = 0
    /\ UNCHANGED <<archive, number_of_files, manifest_files, starts, manifest, idx,
                   files, dirs, reported, last, ret>>

(* extract_manifest_entry(entry, output_path, stream) for entry number i,   *)
(* with `fault` what the environment makes fail.  It gives the new disk,    *)
(* the cursor, the exception that leaves the function (if any) and whether  *)
(* the except clause printed.                                               *)
extract_manifest_entry(i, fault) ==
    LET entry      == manifest.manifest_entries[i]
        byte_array == get_bytes(entry.file_offset, entry.length, archive, pos)
        file_path  == PathJoin(OutputPath, entry.file_name)
        made       == IF fault = "makedirs"
                      THEN [exc |-> "OSError", dirs |-> dirs]
                      ELSE MakeDirs(PathDirname(file_path), dirs, files)
        opened     == IF fault = "open" THEN "OSError"
                      ELSE OpenForWrite(file_path, made.dirs, files)
        dest       == Destination(file_path)
        Call(outcome) == [index |-> i, outcome |-> outcome, path |-> file_path,
                          content |-> byte_array.buf]
    IN  IF made.exc # "none"
        THEN [pos |-> byte_array.pos, dirs |-> made.dirs, files |-> files,
              raised |-> made.exc, printed |-> FALSE, call |-> Call("raised")]
        ELSE IF opened = "ValueError"
        THEN [pos |-> byte_array.pos, dirs |-> made.dirs, files |-> files,
              raised |-> opened, printed |-> FALSE, call |-> Call("raised")]
        ELSE IF opened # "none"
        THEN [pos |-> byte_array.pos, dirs |-> made.dirs, files |-> files,
              raised |-> "none", printed |-> TRUE, call |-> Call("reported")]
        ELSE [pos |-> byte_array.pos, dirs |-> made.dirs,
              files |-> WriteFile(files, dest, byte_array.buf),
              raised |-> "none", printed |-> FALSE, call |-> Call("written")]

(* The loop's turn with the archive opened anew for every entry: the open   *)
(* may fail after earlier entries were written.                             *)
ExtractEntryReopening ==
    /\ pc = "extract"
    /\ idx < Len(manifest.manifest_entries)
    /\ \/ /\ Raise("OSError", "extract_manifest_files")
          /\ UNCHANGED <<idx, pos, dirs, files, last, reported>>
       \/ \E fault \in Faults :
             LET r == extract_manifest_entry(idx + 1, fault)
             IN  /\ idx' = idx + 1
                 /\ pos' = r.pos
                 /\ dirs' = r.dirs
                 /\ files' = r.files
                 /\ last' = r.call
                 /\ reported' = IF r.printed THEN Append(reported, idx + 1) ELSE reported
                 /\ IF r.raised # "none"
                    THEN Raise(r.raised, "extract_manifest_entry")
                    ELSE UNCHANGED <<pc, exc>>
    /\ UNCHANGED <<archive, number_of_files, manifest_files, starts, manifest, ret>>

(* One turn of the loop of extract_manifest_files. *)
ExtractEntry ==
    /\ pc = "extract"
    /\ idx < Len(manifest.manifest_entries)
    /\ \E fault \in Faults :
          LET r == extract_manifest_entry(idx + 1, fault)
          IN  /\ idx' = idx + 1
              /\ pos' = r.pos
              /\ dirs' = r.dirs
              /\ files' = r.files
              /\ last' = r.call
              /\ reported' = IF r.printed THEN Append(reported, idx + 1) ELSE reported
              /\ IF r.raised # "none"
                 THEN Raise(r.raised, "extract_manifest_entry")
                 ELSE UNCHANGED <<pc, exc>>
    /\ UNCHANGED <<archive, number_of_files, manifest_files, starts, manifest, ret>>

(* The loop is over: the stream is closed, the function returns. *)
ExtractReturn ==
    /\ pc = "extract"
    /\ idx = Len(manifest.manifest_entries)
    /\ pc' = "done"
    /\ pos' = 0
    /\ UNCHANGED <<archive, number_of_files, manifest_files, starts, manifest, idx,
                   files, dirs, exc, reported, last, ret>>

Next ==
    \/ OpenArchive
    \/ ReadHeader
    \/ ParseEntry
    \/ ReturnManifest
    \/ Lookup
    \/ OpenForExtract
    \/ ExtractEntry
    \/ ExtractReturn

(* A run: create_manifest, then a lookup or extract_manifest_files. *)
Spec == Init /\ [][Next]_vars

(* ------------------------------------------------------------------------ *)
(* convert_bytes and parse_manifest_entry called on their own               *)
(* ------------------------------------------------------------------------ *)

(* Streams for convert_bytes(4, "int", ...): an optional leading byte,      *)
(* three bytes, and a fourth that is missing or below 128 (the values stay  *)
(* below 2^31, the largest integer TLC computes with).                      *)
WordBytes == {0, 1, 128, 255}
TopBytes == { <<>>, <<0>>, <<1>>, <<127>> }
WordStreams ==
    { lead \o low \o top : lead \in { <<>>, <<7>> }, low \in [1..3 -> WordBytes],
                           top \in TopBytes }

(* The longest raw name of a record given to parse_manifest_entry. *)
MaxNameLen == 3

(* Raw names: every byte string up to MaxNameLen of "\", "/", "a" and the   *)
(* two bytes of a two-byte UTF-8 sequence.                                  *)
NameBytes == {92, 47, 97, 195, 169}
RawNames == UNION { [1..k -> NameBytes] : k \in 0..MaxNameLen }

(* One manifest record with that name, complete or short of its last byte. *)
RecordStreams ==
    { Truncated(U32LE(2) \o U32LE(2) \o U32LE(16) \o U32LE(Len(n)) \o n, c) :
        n \in RawNames, c \in {0, 1} }

InitFn ==
    /\ \/ /\ archive \in WordStreams
          /\ pos \in {0, 1}
          /\ pos + 4 <= Len(archive) => archive[pos + 4] < 128
       \/ /\ archive \in RecordStreams
          /\ pos = 0
    /\ pc = "call"
    /\ number_of_files = 0
    /\ manifest_files = <<>>
    /\ starts = <<>>
    /\ manifest = NoManifest
    /\ idx = 0
    /\ files = <<>>
    /\ dirs = {}
    /\ exc = NoExc
    /\ reported = <<>>
    /\ last = NoCall
    /\ ret = NoRet

CallConvertBytes ==
    /\ pc = "call"
    /\ LET r == convert_bytes(4, "int", archive, pos)
       IN  /\ ret' = [op |-> "convert_bytes", at |-> pos, result |-> r]
           /\ pos' = r.pos
    /\ pc' = "returned"
    /\ UNCHANGED <<archive, number_of_files, manifest_files, starts, manifest, idx,
                   files, dirs, exc, reported, last>>

CallParseManifestEntry ==
    /\ pc = "call"
    /\ LET r == parse_manifest_entry(archive, pos)
       IN  /\ ret' = [op |-> "parse_manifest_entry", at |-> pos, result |-> r]
           /\ pos' = r.pos
    /\ pc' = "returned"
    /\ UNCHANGED <<archive, number_of_files, manifest_files, starts, manifest, idx,
                   files, dirs, exc, reported, last>>

NextFn ==
    \/ CallConvertBytes
    \/ CallParseManifestEntry

SpecFn == InitFn /\ [][NextFn]_vars

(* ------------------------------------------------------------------------ *)
(* The terms the properties are stated in                                   *)
(* ------------------------------------------------------------------------ *)

(* Byte number k (from 0) of the archive, 0 beyond its end. *)
ByteAt(data, k) == IF k >= 0 /\ k < Len(data) THEN data[k + 1] ELSE 0

(* The unsigned little-endian value of the four bytes at offset k. *)
U32At(data, k) ==
    ByteAt(data, k) + 256 * ByteAt(data, k + 1) + 65536 * ByteAt(data, k + 2)
        + 16777216 * ByteAt(data, k + 3)

BytesAt(data, k, n) == [i \in 1..n |-> ByteAt(data, k + i - 1)]

(* The offset of record number i (from 1) of the manifest table: the first  *)
(* follows the count field, each next one follows the name before it.       *)
RECURSIVE RecordOffset(_, _)
RecordOffset(data, i) ==
    IF i = 1 THEN U32At(data, 12) + 4
    ELSE LET k == RecordOffset(data, i - 1)
         IN  k + 16 + U32At(data, k + 12)

NoBackslash(s) == [i \in 1..Len(s) |-> IF s[i] = 92 THEN 47 ELSE s[i]]

(* The raw name of the record at offset k, decoded. *)
RawNameAt(data, k) == Utf8Decode(BytesAt(data, k + 16, U32At(data, k + 12)), 1).s

(* The record at offset k as a ManifestEntry. *)
RecordAt(data, k) ==
    [length |-> U32At(data, k), _length |-> U32At(data, k + 4),
     file_offset |-> U32At(data, k + 8), file_name_length |-> U32At(data, k + 12),
     file_name |-> NoBackslash(RawNameAt(data, k))]

(* The archive is truncated: its header, its count field or one of the      *)
(* records the count declares needs bytes beyond the archive's end.         *)
IsTruncated(data) ==
    \/ Len(data) < 16
    \/ U32At(data, 12) + 4 > Len(data)
    \/ RecordOffset(data, U32At(data, U32At(data, 12)) + 1) > Len(data)

(* create_manifest has returned its Manifest. *)
ManifestReturned ==
    \/ pc \in {"manifest", "looked_up", "extract", "done"}
    \/ pc = "failed" /\ exc.where # "create_manifest"

Entries == manifest.manifest_entries

(* The file entry number i is written to. *)
DestinationOf(i) == Destination(PathJoin(OutputPath, Entries[i].file_name))

(* d lies inside the output directory. *)
InsideOutput(d) ==
    LET root == Destination(OutputPath)
    IN  Len(d) > Len(root) /\ SubSeq(d, 1, Len(root)) = root

SameName(i) == {j \in 1..Len(Entries) : Entries[j].file_name = Entries[i].file_name}
SameFile(i) == {j \in 1..Len(Entries) : DestinationOf(j) = DestinationOf(i)}
Highest(S) == CHOOSE j \in S : \A k \in S : k <= j
Lowest(S) == CHOOSE j \in S : \A k \in S : j <= k

(* extract_manifest_files has returned and no write failure was printed. *)
AllWritten == pc = "done" /\ reported = <<>>

(* ------------------------------------------------------------------------ *)
(* Properties                                                               *)
(* ------------------------------------------------------------------------ *)

(* C1: after extract_manifest_entry has written an entry's file, the file   *)
(* holds exactly entry.length bytes and byte i of it is the archive's byte  *)
(* at file_offset + i, also for an entry whose range passes the archive's   *)
(* end.  (Stated for complete archives.)                                    *)
C1_RoundTrip ==
    (last.outcome = "written" /\ ~IsTruncated(archive)) =>
        LET e == Entries[last.index]
            out == files[Destination(last.path)]
        IN  /\ Len(out) = e.length
            /\ \A i \in 1..e.length :
                  /\ e.file_offset + i <= Len(archive)
                  /\ out[i] = archive[e.file_offset + i]

(* C2: create_manifest never returns a Manifest for a truncated archive. *)
C2_TruncatedNeverReturns == IsTruncated(archive) => ~ManifestReturned

(* C3: an entry whose output could not be produced (the directories not     *)
(* made, the file not opened or written) is reported and the loop goes on   *)
(* to the entries after it.  (Stated for complete archives and the          *)
(* operating system's errors.)                                              *)
C3_OutputFailureIsolated ==
    (/\ last.outcome \in {"reported", "raised"}
     /\ last.index < Len(Entries)
     /\ ~IsTruncated(archive)
     /\ exc.type # "ValueError") =>
        /\ last.outcome = "reported"
        /\ pc \in {"extract", "done"}
        /\ reported # <<>>
        /\ reported[Len(reported)] = last.index

(* C4: every entry extract_manifest_entry has processed has a non-empty     *)
(* name and a destination inside output_path.  (Stated for complete         *)
(* archives.)                                                               *)
C4_InsideOutputPath ==
    (last.index >= 1 /\ ~IsTruncated(archive)) =>
        /\ Len(Entries[last.index].file_name) > 0
        /\ InsideOutput(Destination(last.path))

(* C5: get_manifest_entry_by_name returns the entry of lowest index whose   *)
(* file_name equals the name, raises ValueError exactly when there is none, *)
(* and leaves the manifest as it was given.                                 *)
C5_FirstMatch ==
    ret.op = "get_manifest_entry_by_name" =>
        LET hits == {i \in 1..Len(Entries) : Entries[i].file_name = ret.file_name}
        IN  /\ manifest = ret.given
            /\ IF hits = {}
               THEN ret.result.exc = "ValueError"
               ELSE /\ ret.result.exc = "none"
                    /\ ret.result.index = Lowest(hits)
                    /\ ret.result.entry = Entries[Lowest(hits)]

(* The lookup of a name two different entries bear returned the first. *)
C5_Witness ==
    /\ ret.op = "get_manifest_entry_by_name"
    /\ ret.result.exc = "none"
    /\ ret.result.index = 1
    /\ \E j \in 2..Len(Entries) :
          /\ Entries[j].file_name = ret.file_name
          /\ Entries[j] # Entries[1]

(* C6: a returned Manifest has number_of_files entries, number_of_files is  *)
(* the count stored at manifest_offset, and entry i is record i of the      *)
(* table, each record starting where the one before it ends: that is where  *)
(* its parse started, or at the archive's end when the archive is shorter.  *)
C6_ManifestIsTable ==
    ManifestReturned =>
        /\ Len(Entries) = manifest.number_of_files
        /\ manifest.number_of_files = U32At(archive, U32At(archive, 12))
        /\ Len(starts) = Len(Entries)
        /\ \A i \in 1..Len(Entries) :
              /\ Entries[i] = RecordAt(archive, RecordOffset(archive, i))
              /\ starts[i] = Min(RecordOffset(archive, i), Len(archive))

(* A Manifest of three different entries was returned for a complete        *)
(* archive.                                                                 *)
C6_Witness ==
    /\ pc = "manifest"
    /\ ~IsTruncated(archive)
    /\ Len(Entries) = 3
    /\ Entries[1] # Entries[2]
    /\ Entries[2] # Entries[3]
    /\ Entries[1] # Entries[3]

(* C7: when create_manifest has failed, or the open at the start of         *)
(* extract_manifest_files has, no entry was processed and no file or        *)
(* directory was created.                                                   *)
C7_FailureBeforeOutput ==
    (pc = "failed" /\ exc.where \in {"create_manifest", "extract_manifest_files"}) =>
        /\ idx = 0
        /\ last = NoCall
        /\ reported = <<>>
        /\ files = <<>>
        /\ dirs = {}

(* create_manifest failed on the name of its third record. *)
C7_Witness ==
    /\ pc = "failed"
    /\ exc = [type |-> "UnicodeDecodeError", where |-> "create_manifest"]
    /\ Len(manifest_files) = 2

(* C8: with four bytes left at the cursor, convert_bytes(4, "int", stream)  *)
(* returns b0 + 256*b1 + 256^2*b2 + 256^3*b3, a value of 32 bits, and moves *)
(* the cursor by 4.                                                         *)
C8_LittleEndian ==
    (ret.op = "convert_bytes" /\ ret.at + 4 <= Len(archive)) =>
        /\ ret.result.exc = "none"
        /\ ret.result.value = archive[ret.at + 1] + 256 * archive[ret.at + 2]
                              + 65536 * archive[ret.at + 3]
                              + 16777216 * archive[ret.at + 4]
        /\ ret.result.value >= 0
        /\ ret.result.value \div 16777216 <= 255
        /\ ret.result.pos = ret.at + 4
        /\ pos = ret.at + 4

(* Four bytes, all different and none zero, were converted at offset 1. *)
C8_Witness ==
    /\ ret.op = "convert_bytes"
    /\ ret.at = 1
    /\ SubSeq(archive, 2, Len(archive)) = <<255, 1, 128, 127>>

(* C9: the file_name parse_manifest_entry returns is the raw name with each *)
(* backslash replaced by one slash: same length, no backslash, every other  *)
(* character kept; normalizing it again changes nothing.                    *)
C9_Normalized ==
    (ret.op = "parse_manifest_entry" /\ ret.result.exc = "none") =>
        LET name == ret.result.entry.file_name
            raw  == RawNameAt(archive, ret.at)
        IN  /\ Len(name) = Len(raw)
            /\ \A i \in 1..Len(name) :
                  /\ name[i] # 92
                  /\ name[i] = IF raw[i] = 92 THEN 47 ELSE raw[i]
            /\ StrReplace(name, Backslash, Slash) = name

(* A name with two backslashes and a two-byte character was parsed. *)
C9_Witness ==
    /\ ret.op = "parse_manifest_entry"
    /\ ret.result.exc = "none"
    /\ \E i, j \in 1..Len(RawNameAt(archive, ret.at)) :
          /\ i < j
          /\ RawNameAt(archive, ret.at)[i] = 92
          /\ RawNameAt(archive, ret.at)[j] = 92
    /\ ret.result.entry.file_name_length = 3

(* The byte range of entry i as extract_manifest_entry reads it: length     *)
(* bytes from file_offset, zero where the archive has ended.                *)
RangeOf(i) == BytesAt(archive, Entries[i].file_offset, Entries[i].length)

(* C10 as stated: when all writes succeeded, the file of a name several     *)
(* entries bear holds the byte range of the last of them.  (Stated for      *)
(* manifests whose entries all lie inside output_path.)                     *)
C10_LastOfName ==
    (AllWritten /\ \A i \in 1..Len(Entries) : InsideOutput(DestinationOf(i))) =>
        \A i \in 1..Len(Entries) :
            Cardinality(SameName(i)) > 1 =>
                files[DestinationOf(i)] = RangeOf(Highest(SameName(i)))

(* C10, amended: when all writes succeeded, the file an entry was written   *)
(* to holds the byte range of the last entry in manifest order whose        *)
(* destination is that file, a content fixed by that entry's file_offset    *)
(* and length and the archive's bytes; and for a name several entries bear  *)
(* get_manifest_entry_by_name returns the first of them, not the last.      *)
C10_LastWriterWins ==
    AllWritten =>
        \A i \in 1..Len(Entries) :
            /\ DestinationOf(i) \in DOMAIN files
            /\ files[DestinationOf(i)] = RangeOf(Highest(SameFile(i)))
            /\ Cardinality(SameName(i)) > 1 =>
                  /\ get_manifest_entry_by_name(manifest, Entries[i].file_name).index
                        = Lowest(SameName(i))
                  /\ Lowest(SameName(i)) < Highest(SameName(i))

(* Two entries of one name and a later entry of another name were all       *)
(* written to one file, and the ranges of the last two differ.              *)
C10_Witness ==
    /\ AllWritten
    /\ Len(Entries) = 3
    /\ Entries[1].file_name = Entries[2].file_name
    /\ Entries[3].file_name # Entries[2].file_name
    /\ DestinationOf(1) = DestinationOf(3)
    /\ RangeOf(2) # RangeOf(3)

=============================================================================
